---- MODULE Spec2Model ----
(***************************************************************************)
(* Model of gem5's CacheEntry (src/base/cache/cache_entry.hh): one tagged  *)
(* slot of a tag store.  The object state is the bound tag extractor, the  *)
(* valid bit and the tag.  One action per public method; an assertion      *)
(* failure in setValid() terminates the process (aborted).                 *)
(*                                                                         *)
(* lastCall, prevOp, lastInsert, recycled, seen and extCalls are history   *)
(* variables: they record which calls were made and what they returned,    *)
(* and are never read by the modelled methods.                             *)
(*                                                                         *)
(* other is a second entry of the same tag array, built with the same      *)
(* extractor; base holds the fields inherited from ReplaceableEntry.       *)
(***************************************************************************)
EXTENDS Integers, FiniteSets, Sequences

VARIABLES extractTag, valid, tag, aborted,
          lastCall, prevOp, lastInsert, recycled, seen, extCalls,
          other, base

vars == <<extractTag, valid, tag, aborted,
          lastCall, prevOp, lastInsert, recycled, seen, extCalls,
          other, base>>

\* Width of an address in the model (Addr is a 64-bit unsigned integer in
\* the simulator; the example scenario of the specification uses 16 bits).
AddrBits == 16

\* MaxAddr: the largest representable address, (Addr)-1.
MaxAddr == 2^AddrBits - 1

\* Marks "no address" in the history variables.
NoAddr == -1

\* The addresses the calls are made with: 0, the three addresses of the
\* example scenario (0x1004, 0x1006, 0x1008) and the largest address.
Addresses == {0, 4100, 4102, 4104, MaxAddr}

\* The tag extractors an entry can be constructed with.  Each is the usual
\* indexing-policy extractor addr >> tagShift, represented by its tagShift:
\* 0 (the tag is the whole address), 2 (4-byte blocks) and 12.
TagShifts == {0, 2, 12}

\* Calling the std::function<Addr(Addr)> ext with argument addr.
TagExtractor(ext, addr) == addr \div (2^ext)

\* The object (and whether the process has died) as one value, so that the
\* methods below can be composed as the code composes them.
This ==
  [extractTag |-> extractTag, valid |-> valid, tag |-> tag,
   aborted |-> aborted]

\* CacheEntry(TagExtractor ext) : extractTag(ext), valid(false), tag(MaxAddr)
CacheEntryValidInit(ext) ==
  [extractTag |-> ext, valid |-> TRUE, tag |-> MaxAddr, aborted |-> FALSE]

CacheEntry(ext) ==
  [extractTag |-> ext, valid |-> FALSE, tag |-> MaxAddr, aborted |-> FALSE]

isValid(s) == s.valid

getTag(s) == s.tag

\* match: isValid() && (getTag() == extractTag(addr))
matchNoExtract(s, addr) ==
  isValid(s) /\ (getTag(s) = addr)

matchIgnoreValid(s, addr) ==
  getTag(s) = TagExtractor(s.extractTag, addr)

match(s, addr) ==
  isValid(s) /\ (getTag(s) = TagExtractor(s.extractTag, addr))

\* The extractor invocations match makes, in order: the right operand of &&
\* is evaluated only when isValid() returned true.
matchExtractorCallsEager(s, addr) ==
  <<addr>>

matchExtractorCalls(s, addr) ==
  IF isValid(s) THEN <<addr>> ELSE <<>>

\* setTag: tag = _tag.  A statement after a failed assertion never runs.
setTagDropped(s, t) ==
  s

setTag(s, t) ==
  IF s.aborted THEN s ELSE [s EXCEPT !.tag = t]

\* setValid: assert(!isValid()); valid = true;
setValidNoAssert(s) ==
  IF s.aborted THEN s ELSE [s EXCEPT !.valid = TRUE]

setValid(s) ==
  IF s.aborted THEN s
  ELSE IF ~isValid(s) THEN [s EXCEPT !.valid = TRUE]
       ELSE [s EXCEPT !.aborted = TRUE]

\* invalidate: valid = false; setTag(MaxAddr);
invalidateZeroTag(s) ==
  setTag([s EXCEPT !.valid = FALSE], 0)

invalidateKeepTag(s) ==
  [s EXCEPT !.valid = FALSE]

invalidateClearsExtractor(s) ==
  setTag([s EXCEPT !.valid = FALSE, !.extractTag = 0], MaxAddr)

invalidateKeepValid(s) ==
  setTag(s, MaxAddr)

invalidate(s) ==
  setTag([s EXCEPT !.valid = FALSE], MaxAddr)

\* insert: setValid(); setTag(extractTag(addr));
insertTagFirst(s, addr) ==
  setValid(setTag(s, TagExtractor(s.extractTag, addr)))

insertRawAddr(s, addr) ==
  setTag(setValid(s), addr)

insertAutoEvict(s, addr) ==
  setTag(setValid(invalidate(s)), TagExtractor(s.extractTag, addr))

insertNoTag(s, addr) ==
  setValid(s)

insertDoubleExtract(s, addr) ==
  setTag(setValid(s),
         TagExtractor(s.extractTag, TagExtractor(s.extractTag, addr)))

insert(s, addr) ==
  setTag(setValid(s), TagExtractor(s.extractTag, addr))

\* The extractor invocations insert makes: one, after setValid() returned.
insertExtractorCalls(s, addr) ==
  IF setValid(s).aborted THEN <<>> ELSE <<addr>>

\* print: csprintf("tag: %#x valid: %d | %s", getTag(), isValid(), ...)
\* rendered as the sequence of its fields; %d prints a bool as 0 or 1.
print(s) ==
  <<"tag:", getTag(s), "valid:", IF isValid(s) THEN 1 ELSE 0>>

\* The data members of an entry value (without the process flag).
Fields(s) ==
  [extractTag |-> s.extractTag, valid |-> s.valid, tag |-> s.tag]

\* The second entry as a value the methods can be applied to.
OtherThis ==
  [extractTag |-> other.extractTag, valid |-> other.valid,
   tag |-> other.tag, aborted |-> aborted]

\* Marks a set or way that setPosition() has not assigned yet.
NoPos == -1

\* The sets and ways setPosition() is called with.
Sets == {0}

Ways == {0, 1}

\* The inherited part of a new entry: no position, no replacement data.
ReplaceableEntry ==
  [set |-> NoPos, way |-> NoPos, replacementData |-> 0]

----------------------------------------------------------------------------
\* History bookkeeping.

NoneSeen == [a \in Addresses |-> "none"]

Outcome(b) == IF b THEN "hit" ELSE "miss"

\* Store the object state s and record the call that produced it.
Commit(s, op, addr, ret) ==
  /\ extractTag' = s.extractTag
  /\ valid' = s.valid
  /\ tag' = s.tag
  /\ aborted' = s.aborted
  /\ lastCall' = [op |-> op, addr |-> addr, ret |-> ret]
  /\ prevOp' = lastCall.op

----------------------------------------------------------------------------
\* The state right after construction, for every extractor.
Init ==
  \E ext \in TagShifts :
    LET s == CacheEntry(ext) IN
      /\ extractTag = s.extractTag
      /\ valid = s.valid
      /\ tag = s.tag
      /\ aborted = s.aborted
      /\ lastCall = [op |-> "construct", addr |-> NoAddr, ret |-> "ok"]
      /\ prevOp = "none"
      /\ lastInsert = NoAddr
      /\ recycled = FALSE
      /\ seen = NoneSeen
      /\ extCalls = <<>>
      /\ other = Fields(CacheEntry(ext))
      /\ base = ReplaceableEntry

IsValid ==
  /\ ~aborted
  /\ Commit(This, "isValid", NoAddr, isValid(This))
  /\ extCalls' = <<>>
  /\ UNCHANGED <<lastInsert, recycled, seen, other, base>>

GetTag ==
  /\ ~aborted
  /\ Commit(This, "getTag", NoAddr, getTag(This))
  /\ extCalls' = <<>>
  /\ UNCHANGED <<lastInsert, recycled, seen, other, base>>

PrintEntry ==
  /\ ~aborted
  /\ Commit(This, "print", NoAddr, print(This))
  /\ extCalls' = <<>>
  /\ UNCHANGED <<lastInsert, recycled, seen, other, base>>

MatchFillOnMiss(addr) ==
  /\ ~aborted
  /\ LET r == match(This, addr)
         s == IF r THEN This
              ELSE setTag(This, TagExtractor(extractTag, addr))
     IN /\ Commit(s, "match", addr, r)
        /\ seen' = [seen EXCEPT ![addr] = Outcome(r)]
  /\ extCalls' = matchExtractorCalls(This, addr)
  /\ UNCHANGED <<lastInsert, recycled, other, base>>

MatchConsume(addr) ==
  /\ ~aborted
  /\ LET r == match(This, addr)
         s == IF r THEN [This EXCEPT !.valid = FALSE] ELSE This
     IN /\ Commit(s, "match", addr, r)
        /\ seen' = [seen EXCEPT ![addr] = Outcome(r)]
  /\ extCalls' = matchExtractorCalls(This, addr)
  /\ UNCHANGED <<lastInsert, recycled, other, base>>

Match(addr) ==
  /\ ~aborted
  /\ LET r == match(This, addr)
     IN /\ Commit(This, "match", addr, r)
        /\ seen' = [seen EXCEPT ![addr] = Outcome(r)]
  /\ extCalls' = matchExtractorCalls(This, addr)
  /\ UNCHANGED <<lastInsert, recycled, other, base>>

Insert(addr) ==
  /\ ~aborted
  /\ LET s == insert(This, addr)
     IN /\ Commit(s, "insert", addr,
                  IF s.aborted THEN "InvariantViolation" ELSE "ok")
        /\ lastInsert' = IF s.aborted THEN lastInsert ELSE addr
        /\ seen' = IF s.aborted THEN seen ELSE NoneSeen
  /\ extCalls' = insertExtractorCalls(This, addr)
  /\ UNCHANGED <<recycled, other, base>>

InvalidateResetsBase ==
  /\ ~aborted
  /\ Commit(invalidate(This), "invalidate", NoAddr, "ok")
  /\ recycled' = (recycled \/ valid)
  /\ seen' = NoneSeen
  /\ extCalls' = <<>>
  /\ base' = ReplaceableEntry
  /\ UNCHANGED <<lastInsert, other>>

Invalidate ==
  /\ ~aborted
  /\ Commit(invalidate(This), "invalidate", NoAddr, "ok")
  /\ recycled' = (recycled \/ valid)
  /\ seen' = NoneSeen
  /\ extCalls' = <<>>
  /\ UNCHANGED <<lastInsert, other, base>>

Next ==
  \/ IsValid
  \/ GetTag
  \/ PrintEntry
  \/ \E addr \in Addresses : Match(addr)
  \/ \E addr \in Addresses : Insert(addr)
  \/ Invalidate

Spec == Init /\ [][Next]_vars

----------------------------------------------------------------------------
\* insert() in two steps, with the call of the extractor between them:
\* InsertEnter runs setValid() and reaches the call extractTag(addr);
\* InsertReturn runs setTag() with the value the extractor returned.  While
\* the extractor runs, lastCall.ret is "extracting".

Idle == ~(lastCall.op = "insert" /\ lastCall.ret = "extracting")

InsertEnter(addr) ==
  /\ ~aborted
  /\ Idle
  /\ LET s == setValid(This)
     IN Commit(s, "insert", addr,
               IF s.aborted THEN "InvariantViolation" ELSE "extracting")
  /\ extCalls' = insertExtractorCalls(This, addr)
  /\ UNCHANGED <<lastInsert, recycled, seen, other, base>>

InsertReturn ==
  /\ ~aborted
  /\ ~Idle
  /\ LET s == setTag(This, TagExtractor(extractTag, lastCall.addr))
     IN /\ extractTag' = s.extractTag
        /\ valid' = s.valid
        /\ tag' = s.tag
        /\ aborted' = s.aborted
  /\ lastCall' = [lastCall EXCEPT !.ret = "ok"]
  /\ lastInsert' = lastCall.addr
  /\ seen' = NoneSeen
  /\ UNCHANGED <<prevOp, recycled, extCalls, other, base>>

IdleCall ==
  /\ Idle
  /\ (IsValid \/ GetTag \/ PrintEntry \/ Invalidate
        \/ \E addr \in Addresses : Match(addr))

StepNext ==
  \/ IdleCall
  \/ \E addr \in Addresses : InsertEnter(addr)
  \/ InsertReturn

StepSpec == Init /\ [][StepNext]_vars

----------------------------------------------------------------------------
\* The same methods called on the second entry of the tag array.

OtherCommit(s, op, addr, ret) ==
  /\ other' = Fields(s)
  /\ aborted' = s.aborted
  /\ lastCall' = [op |-> op, addr |-> addr, ret |-> ret]
  /\ prevOp' = lastCall.op
  /\ UNCHANGED <<lastInsert, recycled, seen, extCalls, base>>

OtherMatch(addr) ==
  /\ ~aborted
  /\ OtherCommit(OtherThis, "other.match", addr, match(OtherThis, addr))
  /\ UNCHANGED <<extractTag, valid, tag>>

OtherInsertSharedTag(addr) ==
  /\ ~aborted
  /\ LET s == insert(OtherThis, addr)
     IN /\ OtherCommit(s, "other.insert", addr,
                       IF s.aborted THEN "InvariantViolation" ELSE "ok")
        /\ tag' = s.tag
  /\ UNCHANGED <<extractTag, valid>>

OtherInsert(addr) ==
  /\ ~aborted
  /\ LET s == insert(OtherThis, addr)
     IN OtherCommit(s, "other.insert", addr,
                    IF s.aborted THEN "InvariantViolation" ELSE "ok")
  /\ UNCHANGED <<extractTag, valid, tag>>

OtherInvalidate ==
  /\ ~aborted
  /\ OtherCommit(invalidate(OtherThis), "other.invalidate", NoAddr, "ok")
  /\ UNCHANGED <<extractTag, valid, tag>>

PairNext ==
  \/ \E addr \in Addresses : Match(addr)
  \/ \E addr \in Addresses : Insert(addr)
  \/ Invalidate
  \/ \E addr \in Addresses : OtherMatch(addr)
  \/ \E addr \in Addresses : OtherInsert(addr)
  \/ OtherInvalidate

PairSpec == Init /\ [][PairNext]_vars

----------------------------------------------------------------------------
\* The tag array places the entry: setPosition(set, way) of the base class
\* and the assignment of its replacement data.

Place(set, way) ==
  /\ ~aborted
  /\ base' = [set |-> set, way |-> way, replacementData |-> 1]
  /\ lastCall' = [op |-> "setPosition", addr |-> NoAddr, ret |-> "ok"]
  /\ prevOp' = lastCall.op
  /\ UNCHANGED <<extractTag, valid, tag, aborted, lastInsert, recycled,
                 seen, extCalls, other>>

PlacedNext ==
  \/ Next
  \/ \E set \in Sets : \E way \in Ways : Place(set, way)

PlacedSpec == Init /\ [][PlacedNext]_vars

----------------------------------------------------------------------------
Observers == {"isValid", "getTag", "match", "print"}

OtherOps == {"other.match", "other.insert", "other.invalidate"}

TypeOK ==
  /\ extractTag \in TagShifts
  /\ valid \in BOOLEAN
  /\ tag \in 0..MaxAddr
  /\ aborted \in BOOLEAN
  /\ lastCall.op \in Observers \cup OtherOps
                       \cup {"construct", "insert", "invalidate",
                             "setPosition"}
  /\ lastInsert \in Addresses \cup {NoAddr}
  /\ recycled \in BOOLEAN
  /\ seen \in [Addresses -> {"none", "hit", "miss"}]
  /\ extCalls \in {<<>>} \cup {<<a>> : a \in Addresses}
  /\ other.valid \in BOOLEAN
  /\ other.tag \in 0..MaxAddr
  /\ base.set \in Sets \cup {NoPos}
  /\ base.way \in Ways \cup {NoPos}

----------------------------------------------------------------------------
\* The tag the bound extractor gives for addr.
TagOf(addr) == TagExtractor(extractTag, addr)

\* A step that is a call of the method op.
Calls(op) == lastCall'.op = op

\* C1: insert(a) on an entry that is already valid always ends in the failed
\* assertion (InvariantViolation), for every address a; it never completes
\* as a successful insert.
C1_DoubleInsertFatal ==
  [][(valid /\ Calls("insert"))
       => (aborted' /\ lastCall'.ret = "InvariantViolation")]_vars

\* An insert was attempted on a valid entry and the process died in it.
C1_Witness ==
  /\ aborted
  /\ lastCall.op = "insert"
  /\ lastCall.ret = "InvariantViolation"

\* C2: the rejected insert overwrites nothing: at the point of failure valid
\* is still true and tag is still the tag stored by the earlier insert, not
\* the tag of the rejected address.
C2_RejectedInsertKeepsState ==
  [][(~aborted /\ aborted')
       => /\ valid /\ valid'
          /\ tag' = tag
          /\ tag' = TagOf(lastInsert)
          /\ lastInsert' = lastInsert]_vars

\* The rejected insert carried an address whose tag differs from the stored
\* one, so an overwrite would have been visible.
C2_Witness ==
  /\ aborted
  /\ lastCall.op = "insert"
  /\ TagOf(lastCall.addr) # tag

\* C3: after insert(a) on an invalid entry, fresh or invalidated after
\* earlier use, isValid() is true and getTag() equals extractTag(a).
C3_InsertSetsValidAndTag ==
  [][(~valid /\ Calls("insert"))
       => /\ ~aborted'
          /\ isValid(This') = TRUE
          /\ getTag(This') = TagExtractor(extractTag', lastCall'.addr)
          /\ lastCall'.ret = "ok"]_vars

\* An insert completed on an entry that had been filled and invalidated
\* before, with an address that is not its own tag.
C3_Witness ==
  /\ lastCall.op = "insert"
  /\ ~aborted
  /\ recycled
  /\ prevOp = "invalidate"
  /\ TagOf(lastCall.addr) # lastCall.addr

\* C4: match(b) returns true exactly when the entry is valid and
\* extractTag(b) equals getTag(); so after insert(a) it is true exactly for
\* the addresses b with extractTag(b) = extractTag(a).  With
\* extractTag(x) = x >> 2, after insert(0x1004) match(0x1006) is true and
\* match(0x1008) is false.
C4_MatchCorrect ==
  /\ (lastCall.op = "match")
       => (lastCall.ret = (valid /\ TagOf(lastCall.addr) = tag))
  /\ valid
       => \A b \in Addresses :
            match(This, b) = (TagOf(b) = TagOf(lastInsert))
  /\ (valid /\ extractTag = 2 /\ lastInsert = 4100)
       => /\ match(This, 4102)
          /\ ~match(This, 4104)
          /\ (lastCall.op = "match" /\ lastCall.addr = 4102)
               => lastCall.ret = TRUE
          /\ (lastCall.op = "match" /\ lastCall.addr = 4104)
               => lastCall.ret = FALSE

\* The example scenario: 0x1004 inserted under x >> 2, then match(0x1006)
\* answered.
C4_Witness ==
  /\ valid
  /\ extractTag = 2
  /\ lastInsert = 4100
  /\ lastCall.op = "match"
  /\ lastCall.addr = 4102
  /\ lastCall.ret = TRUE

\* C5: after invalidate(), in whatever state it was called, isValid() is
\* false, getTag() is MaxAddr and match(b) is false for every address b, also
\* for a b whose extracted tag is MaxAddr.
C5_InvalidateResets ==
  [][Calls("invalidate")
       => /\ isValid(This') = FALSE
          /\ getTag(This') = MaxAddr
          /\ \A b \in Addresses : ~match(This', b)
          /\ ~aborted']_vars

\* invalidate() was called on a valid entry whose extractor maps some
\* address to MaxAddr.
C5_Witness ==
  /\ lastCall.op = "invalidate"
  /\ prevOp = "insert"
  /\ recycled
  /\ \E b \in Addresses : TagOf(b) = MaxAddr

\* C6: a freshly constructed entry is invalid and holds MaxAddr as its tag;
\* match(a) is false for every address a, whatever the extractor.
C6_FreshEntryInvalid ==
  (lastCall.op = "construct")
    => /\ isValid(This) = FALSE
       /\ getTag(This) = MaxAddr
       /\ \A a \in Addresses : ~match(This, a)
       /\ ~aborted

\* A fresh entry whose extractor maps some address to the tag it holds.
C6_Witness ==
  /\ lastCall.op = "construct"
  /\ \E a \in Addresses : TagOf(a) = tag

\* C7: valid goes from false to true only by a successful insert and from
\* true to false only by invalidate, and no call takes a valid entry to a
\* valid entry with another tag.
C7_OnlyDocumentedTransitions ==
  [][/\ (~valid /\ valid') => (Calls("insert") /\ ~aborted')
     /\ (valid /\ ~valid') => Calls("invalidate")
     /\ (valid /\ valid') => (tag' = tag)]_vars

\* An entry that went through insert, invalidate and insert again.
C7_Witness ==
  /\ valid
  /\ recycled
  /\ lastCall.op = "insert"
  /\ ~aborted

\* C8: invalidate() is idempotent: a second invalidate() right after one, or
\* an invalidate() on an entry that is already invalid, leaves valid, tag
\* and every match result as they were.
C8_InvalidateIdempotent ==
  [][(Calls("invalidate") /\ (lastCall.op = "invalidate" \/ ~valid))
       => /\ valid' = valid
          /\ tag' = tag
          /\ \A b \in Addresses : match(This', b) = match(This, b)]_vars

\* invalidate() called twice in a row.
C8_Witness ==
  /\ lastCall.op = "invalidate"
  /\ prevOp = "invalidate"

\* C9: isValid(), getTag(), match(address) and print() leave valid and tag
\* unchanged, in every state and for every address.
C9_ObserversPure ==
  [][(lastCall'.op \in Observers)
       => (valid' = valid /\ tag' = tag /\ extractTag' = extractTag)]_vars

\* A match that missed on a valid entry.
C9_Witness ==
  /\ valid
  /\ lastCall.op = "match"
  /\ lastCall.ret = FALSE
  /\ prevOp = "print"

\* C10: match with an address it was already called with since the last
\* insert or invalidate returns what it returned then, whatever observer
\* calls came in between.
C10_MatchRepeatable ==
  [][(Calls("match") /\ seen[lastCall'.addr] # "none")
       => (Outcome(lastCall'.ret) = seen[lastCall'.addr])]_vars

\* Two matches in a row on a valid entry, both with the same address (only
\* one address has been asked about since the insert), that hit.
C10_Witness ==
  /\ valid
  /\ lastCall.op = "match"
  /\ prevOp = "match"
  /\ lastCall.ret = TRUE
  /\ Cardinality({b \in Addresses : seen[b] # "none"}) = 1

\* C11 as stated: in every reachable state isValid() implies that getTag()
\* differs from MaxAddr.
C11_Original ==
  valid => (tag # MaxAddr)

\* C11, amended: a valid entry holds extractTag(a) of the inserted address
\* a, so it holds MaxAddr exactly when the extractor returned MaxAddr for a;
\* under an extractor addr >> tagShift with tagShift >= 1, which never
\* returns MaxAddr, isValid() implies getTag() # MaxAddr.
C11_SentinelOnlyFromExtractor ==
  valid => /\ (tag = MaxAddr) <=> (TagOf(lastInsert) = MaxAddr)
           /\ (extractTag >= 1) => (tag # MaxAddr)

\* The largest address was inserted under a shifting extractor.
C11_Witness ==
  /\ valid
  /\ extractTag >= 1
  /\ lastInsert = MaxAddr
  /\ lastCall.op = "getTag"

\* C12: between completed calls an invalid entry holds the sentinel:
\* isValid() = false implies getTag() = MaxAddr, after any sequence of
\* construct, insert and invalidate.
C12_InvalidHoldsSentinel ==
  (~isValid(This)) => (getTag(This) = MaxAddr)

\* An entry that was filled, invalidated and then asked for its tag.
C12_Witness ==
  /\ ~valid
  /\ recycled
  /\ lastCall.op = "getTag"
  /\ lastCall.ret = MaxAddr

\* C13: no call changes the extractor bound at construction, so every
\* insert stores the tag the constructor's extractor gives.
C13_ExtractorFixed ==
  [][/\ extractTag' = extractTag
     /\ (Calls("insert") /\ ~aborted')
          => (tag' = TagExtractor(extractTag, lastCall'.addr))]_vars

\* A reused entry under the extractor x >> 2 that answered a match.
C13_Witness ==
  /\ recycled
  /\ valid
  /\ extractTag = 2
  /\ lastCall.op = "match"
  /\ prevOp = "insert"

\* C15: whenever the entry is valid, its tag is extractTag of the address of
\* the most recent insert, no invalidate has come after that insert, and a
\* match hits only for addresses that share the tag of that address.
C15_ValidTagFromLatestInsert ==
  /\ [](valid => /\ lastInsert \in Addresses
                 /\ tag = TagOf(lastInsert)
                 /\ \A b \in Addresses :
                      match(This, b) => (TagOf(b) = TagOf(lastInsert)))
  /\ []((lastCall.op = "match" /\ lastCall.ret)
          => (TagOf(lastCall.addr) = TagOf(lastInsert)))
  /\ [][Calls("invalidate") => ~valid']_vars

\* A reused entry that missed on a match right after its second fill.
C15_Witness ==
  /\ valid
  /\ recycled
  /\ lastCall.op = "match"
  /\ lastCall.ret = FALSE
  /\ prevOp = "insert"

\* C18: invalidate() can be called in every state of a live process and
\* always succeeds, leaving the entry invalid; the insert(b) after it
\* succeeds for every address b.
C18_AlwaysReusable ==
  /\ []((~aborted) => ENABLED Invalidate)
  /\ [][/\ Calls("invalidate") => (~aborted' /\ ~valid')
        /\ (lastCall.op = "invalidate" /\ Calls("insert"))
             => (~aborted' /\ valid' /\ lastCall'.ret = "ok")]_vars

\* The largest address was inserted right after an invalidate of a used
\* entry.
C18_Witness ==
  /\ valid
  /\ recycled
  /\ lastCall.op = "insert"
  /\ lastCall.addr = MaxAddr
  /\ prevOp = "invalidate"

\* C14 as stated: nothing, the extractor call made inside insert included,
\* can find valid = true while tag is not extractTag of the address being
\* inserted.
C14_Original ==
  (valid /\ ~aborted)
    => (tag = TagOf(IF Idle THEN lastInsert ELSE lastCall.addr))

\* C14, amended: every method call that starts after insert(addr) has
\* returned finds valid = true together with tag = extractTag(addr); the
\* only code that runs between the two writes of insert is the extractor
\* call, and during it valid is already true while tag still holds MaxAddr.
C14_AtomicForMethodCalls ==
  /\ (Idle /\ valid) => (tag = TagOf(lastInsert))
  /\ (~Idle) => /\ valid
                /\ tag = MaxAddr
                /\ extCalls = <<lastCall.addr>>
                /\ ~aborted

\* An insert returned and isValid() was called after it.
C14_Witness ==
  /\ Idle
  /\ valid
  /\ tag # MaxAddr
  /\ lastCall.op = "isValid"
  /\ prevOp = "insert"

\* C16: match on an invalid entry does not call the extractor; match on a
\* valid entry calls it once, with the address given.
C16_MatchShortCircuits ==
  [][Calls("match")
       => (extCalls' = IF valid THEN <<lastCall'.addr>> ELSE <<>>)]_vars

\* A match was answered by an invalidated entry.
C16_Witness ==
  /\ lastCall.op = "match"
  /\ ~valid
  /\ recycled
  /\ extCalls = <<>>

\* C17: insert, invalidate and match on one of two entries that share an
\* extractor leave valid, tag and every match result of the other entry
\* unchanged.
C17_NoCrossEntryInterference ==
  [][/\ (lastCall'.op \in OtherOps)
          => /\ valid' = valid
             /\ tag' = tag
             /\ extractTag' = extractTag
             /\ \A b \in Addresses : match(This', b) = match(This, b)
     /\ (lastCall'.op \in {"match", "insert", "invalidate"})
          => /\ other' = other
             /\ \A b \in Addresses :
                  match(OtherThis', b) = match(OtherThis, b)]_vars

\* Both entries are filled, with different tags, the second one last.
C17_Witness ==
  /\ valid
  /\ other.valid
  /\ tag # other.tag
  /\ lastCall.op = "other.insert"
  /\ prevOp = "insert"
  /\ ~aborted

====
